---- MODULE Spec2Model ----
(***************************************************************************)
(* A model of synapse/handlers/saml_handler.py: the SamlHandler's table of *)
(* outstanding SAML requests, its expiry sweep, and the resolution of a    *)
(* SAML response to a local user under the "saml_mapping" Linearizer,      *)
(* together with the DefaultSamlMappingProvider.                           *)
(*                                                                         *)
(* Strings are sequences of one-character strings.  An optional value is   *)
(* a sequence of length at most one: None is <<>>, Some(x) is <<x>>.       *)
(* Every step of a coroutine between two awaits is one action: the         *)
(* reactor runs it without interleaving.                                   *)
(***************************************************************************)
EXTENDS Integers, Sequences, FiniteSets, TLC

\* ------------------------------------------------------------- bounds
\* Number of concurrent /authn_response requests.
NProcs == 2
\* Number of request ids the SAML library hands out.
NReqIds == 2
\* The clock runs from 0 to MaxClock milliseconds.
MaxClock == 2
\* The longest input given to the normalizer.
MaxLen == 3
\* The session lifetimes the configurations are drawn from: no lifetime at
\* all, and one tick of the clock.
SessionLifetimes == { 0, 1 }

\* ---------------------------------------------------------- constants
\* `for i in range(1000)`
MaxAttempts == 1000

Procs == 1 .. NProcs
ReqIds == 1 .. NReqIds

None == << >>
Some(x) == << x >>

\* -------------------------------------------------------------- strings
Digits == << "0", "1", "2", "3", "4", "5", "6", "7", "8", "9" >>

\* Python's str(n) for n >= 0
RECURSIVE str(_)
str(n) ==
    IF n < 10 THEN << Digits[n + 1] >>
    ELSE str(n \div 10) \o << Digits[(n % 10) + 1] >>

\* Python's str.lower on one character of the alphabet used here
lower_char(c) ==
    CASE c = "A" -> "a"
      [] c = "B" -> "b"
      [] OTHER -> c

\* str.lower
lower(s) == [k \in 1 .. Len(s) |-> lower_char(s[k])]

\* synapse.types.mxid_localpart_allowed_characters: "_-./=" + a-z + 0-9
mxid_localpart_allowed_characters ==
    { "_", "-", ".", "/", "=", "a", "b" } \cup { Digits[k] : k \in 1 .. 10 }

\* DOT_REPLACE_PATTERN.sub(".", username)
DOT_REPLACE_sub(s) ==
    [k \in 1 .. Len(s) |->
        IF s[k] \in mxid_localpart_allowed_characters THEN s[k] ELSE "."]

\* A bug: the leading underscore is kept.
dot_replace_keep_underscore(username) ==
    DOT_REPLACE_sub(lower(username))

\* dot_replace_for_mxid
dot_replace_for_mxid(username) ==
    LET u == DOT_REPLACE_sub(lower(username))
    IN  IF Len(u) > 0 /\ u[1] = "_" THEN Tail(u) ELSE u

\* Two hexadecimal digits of the code point of a character outside the
\* allowed set (the characters of the alphabet used here).
hex_of(c) ==
    CASE c = "A" -> << "4", "1" >>
      [] c = "B" -> << "4", "2" >>
      [] c = "!" -> << "2", "1" >>
      [] OTHER -> << "3", "f" >>

\* The hex-encode policy: a character outside the allowed set is escaped
\* as "=" followed by its two hexadecimal digits.
RECURSIVE map_username_to_mxid_localpart(_)
map_username_to_mxid_localpart(username) ==
    IF username = << >> THEN << >>
    ELSE (IF Head(username) \in mxid_localpart_allowed_characters
             THEN << Head(username) >>
             ELSE << "=" >> \o hex_of(Head(username)))
         \o map_username_to_mxid_localpart(Tail(username))

\* self._hostname
hostname == << "h" >>

\* UserID(localpart, hostname).to_string()
UserID_to_string(localpart) == << "@" >> \o localpart \o << ":" >> \o hostname


\* ------------------------------------------------------------ the state
VARIABLES
    clock,              \* self._clock.time_msec()
    config,             \* the configuration read by __init__ and by the mapping provider
    outstanding,        \* self._outstanding_requests_dict: request id -> optional session
    next_reqid,         \* the next request id prepare_for_authenticate hands out
    lock_holders,       \* the requests inside the "saml_mapping" Linearizer
    lock_queue,         \* the requests waiting for it, in order of arrival
    users,              \* the account store: the set of registered user ids
    user_external_ids,  \* the binding store: rows of (auth_provider, external_id, user_id)
    st,                 \* per request: the coroutine's position and local variables
    popped,             \* history: how many responses recovered the session of each id
    replayed,           \* history: the ids a response named after their session was recovered
    usernames           \* dot_replace_for_mxid: an input and the results of applying it

vars == << clock, config, outstanding, next_reqid, lock_holders, lock_queue,
           users, user_external_ids, st, popped, replayed, usernames >>

\* self._auth_provider_id
auth_provider_id == "saml"

\* The attributes a response may carry ("ava").
AttrNames == { "uid", "mxid", "legacy_uid" }

\* Saml2SessionData
Saml2SessionData(creation_time, ui_auth_session_id) ==
    [creation_time |-> creation_time, ui_auth_session_id |-> ui_auth_session_id]

\* A request that has not arrived yet.
IdleState ==
    [pc |-> "idle",
     bound_on_arrival |-> FALSE,
     ava |-> [a \in AttrNames |-> None],
     remote_user_id |-> << >>,
     current_session |-> None,
     i |-> 0,
     localpart |-> << >>,
     registered_user_id |-> None,
     error |-> "",
     \* history
     found_existing |-> FALSE,
     calls |-> << >>,
     n_lookups |-> 0,
     completion |-> ""]

\* One call of a collaborator, as recorded in a request's history.
\* a is the string passed, b the optional user id passed or returned, ok
\* whether the call returned.
Call(op, a, b, ok) == [op |-> op, a |-> a, b |-> b, ok |-> ok]

\* ------------------------------------------------- the session table
\* expire_sessions, with < replaced by <=
expire_sessions_inclusive(table, now, lifetime) ==
    [r \in DOMAIN table |->
        IF table[r] # None /\ table[r][1].creation_time <= now - lifetime
        THEN None ELSE table[r]]

\* SamlHandler.expire_sessions: the table it leaves
expire_sessions(table, now, lifetime) ==
    LET expire_before == now - lifetime
        to_expire == { reqid \in DOMAIN table :
                          /\ table[reqid] # None
                          /\ table[reqid][1].creation_time < expire_before }
    IN  [reqid \in DOMAIN table |->
            IF reqid \in to_expire THEN None ELSE table[reqid]]

\* self._outstanding_requests_dict.pop(in_response_to, None): the session
pop_session(table, in_response_to) ==
    IF in_response_to = None THEN None ELSE table[in_response_to[1]]

\* A bug: the session is read and left in the table.
pop_table_keep(table, in_response_to) == table

\* self._outstanding_requests_dict.pop(in_response_to, None): the table left
pop_table(table, in_response_to) ==
    IF in_response_to = None THEN table
    ELSE [table EXCEPT ![in_response_to[1]] = None]

\* A bug: no sweep before the response is parsed.
sweep_skipped(table) == table

\* handle_saml_response: self.expire_sessions() before the table is used
sweep_before_parse(table) ==
    expire_sessions(table, clock, config.session_lifetime)

\* SamlHandler.handle_redirect_request: the library's request id is stored
\* with the current time.  (The Location header is the library's to give.)
handle_redirect_request(reqid, ui_auth_session_id) ==
    LET now == clock
        data == Saml2SessionData(now, ui_auth_session_id)
    IN  /\ outstanding' = [outstanding EXCEPT ![reqid] = Some(data)]
        /\ UNCHANGED << clock, config, usernames, lock_holders, lock_queue, users,
                        user_external_ids, st, popped, replayed >>

\* prepare_for_authenticate hands out a request id it has not used before.
redirect_request(ui_auth_session_id) ==
    /\ next_reqid \in ReqIds
    /\ next_reqid' = next_reqid + 1
    /\ handle_redirect_request(next_reqid, ui_auth_session_id)

\* Time passes.
Tick ==
    /\ clock < MaxClock
    /\ clock' = clock + 1
    /\ UNCHANGED << config, usernames, outstanding, next_reqid, lock_holders, lock_queue,
                    users, user_external_ids, st, popped, replayed >>


\* ------------------------------------------------------ the mapping lock
\* Linearizer.queue on a free key enters at once; otherwise the caller
\* waits behind the earlier callers.
Linearizer_free == lock_holders = {}

\* Leaving the Linearizer: the holders left, the waiters left, and the
\* waiter (if any) that enters.
Linearizer_next(p) ==
    IF lock_holders \ {p} = {} /\ lock_queue # << >>
    THEN << Head(lock_queue) >> ELSE << >>

\* A bug: the request does not wait for the lock.
mapping_lock_not_awaited(p, s) ==
    /\ st' = [st EXCEPT ![p] = [s EXCEPT !.pc = "get_user_by_external_id"]]
    /\ UNCHANGED << lock_holders, lock_queue >>

\* with (await self._mapping_lock.queue(self._auth_provider_id)): entering.
\* s is the request's state when it reaches the lock.
mapping_lock_queue(p, s) ==
    IF Linearizer_free
    THEN /\ lock_holders' = lock_holders \cup {p}
         /\ lock_queue' = lock_queue
         /\ st' = [st EXCEPT ![p] = [s EXCEPT !.pc = "get_user_by_external_id"]]
    ELSE /\ lock_holders' = lock_holders
         /\ lock_queue' = Append(lock_queue, p)
         /\ st' = [st EXCEPT ![p] = [s EXCEPT !.pc = "lock_wait"]]

\* A bug: the lock is kept when the block is left.
mapping_lock_kept(p, s) ==
    /\ st' = [st EXCEPT ![p] = s]
    /\ UNCHANGED << lock_holders, lock_queue >>

\* with (await self._mapping_lock.queue(...)): leaving the block, by a
\* return or by an exception.  s is the request's state as it leaves.
mapping_lock_release(p, s) ==
    LET next == Linearizer_next(p)
    IN  IF next # << >>
        THEN /\ lock_holders' = (lock_holders \ {p}) \cup { next[1] }
             /\ lock_queue' = Tail(lock_queue)
             /\ st' = [st EXCEPT ![p] = s,
                                 ![next[1]].pc = "get_user_by_external_id"]
        ELSE /\ lock_holders' = lock_holders \ {p}
             /\ lock_queue' = lock_queue
             /\ st' = [st EXCEPT ![p] = s]

\* raise inside the block
Raise(p, s, error) ==
    mapping_lock_release(p, [s EXCEPT !.pc = "failed", !.error = error,
                                      !.current_session = None])

\* return registered_user_id, current_session
Return(p, s, registered_user_id) ==
    mapping_lock_release(p, [s EXCEPT !.pc = "complete",
                                      !.registered_user_id = Some(registered_user_id)])

\* ---------------------------------------------------------- the stores
\* The rows of the binding store for an external id.
external_id_rows(remote_user_id) ==
    { row \in user_external_ids :
        /\ row.auth_provider = auth_provider_id
        /\ row.external_id = remote_user_id }

\* self._datastore.get_user_by_external_id: the bound user id, or None
store_get_user_by_external_id(remote_user_id) ==
    IF external_id_rows(remote_user_id) = {} THEN None
    ELSE Some((CHOOSE row \in external_id_rows(remote_user_id) : TRUE).user_id)

\* self._datastore.get_users_by_id_case_insensitive: the matching user ids
\* (the lowered id asked for is computed once, then compared with each)
store_get_users_by_id_case_insensitive(user_id) ==
    UNION { { u \in users : lower(u) = key } : key \in { lower(user_id) } }

\* self._datastore.record_user_external_id: the row it inserts
external_id_row(remote_user_id, user_id) ==
    [auth_provider |-> auth_provider_id,
     external_id |-> remote_user_id,
     user_id |-> user_id]

\* --------------------------------------------------- the mapping provider
\* MXID_MAPPER_MAP[config.mxid_mapping]
mxid_mapper(mxid_source) ==
    IF config.mxid_mapper = "dotreplace"
    THEN dot_replace_for_mxid(mxid_source)
    ELSE map_username_to_mxid_localpart(mxid_source)

\* A bug: the suffix is left out.
localpart_without_suffix(base_mxid_localpart, failures) == base_mxid_localpart

\* localpart = base_mxid_localpart + (str(failures) if failures else "")
localpart_for(base_mxid_localpart, failures) ==
    base_mxid_localpart \o (IF failures # 0 THEN str(failures) ELSE << >>)

\* DefaultSamlMappingProvider.get_remote_user_id: an error, or the uid
get_remote_user_id(ava) ==
    IF ava["uid"] = None
    THEN [error |-> "400 'uid' not in SAML2 response", remote_user_id |-> << >>]
    ELSE [error |-> "", remote_user_id |-> ava["uid"][1]]

\* DefaultSamlMappingProvider.saml_response_to_user_attributes: an error,
\* or the localpart for this number of failures
saml_response_to_user_attributes(ava, failures) ==
    IF ava[config.mxid_source_attribute] = None
    THEN [error |-> "400 mxid source not in SAML2 response", mxid_localpart |-> << >>]
    ELSE [error |-> "",
          mxid_localpart |->
              localpart_for(mxid_mapper(ava[config.mxid_source_attribute][1]),
                            failures)]


\* ------------------------------------------------- handling a response
ParseOutcomes ==
    { "ok",
      "400 Unable to parse SAML2 response",
      "400 SAML2 response was not signed" }

\* The request's state when it fails before it reaches the lock.
Rejected(s, error) ==
    [s EXCEPT !.pc = "failed", !.error = error, !.current_session = None]

\* SamlHandler.handle_saml_response, up to the first await of
\* _map_saml_response_to_user: the sweep, the parse of the response (the
\* library's outcome, its InResponseTo and its attributes are the inputs),
\* the pop of the session, the remote user id, and the queue for the lock.
handle_saml_response(p, outcome, in_response_to, ava) ==
    /\ st[p].pc = "idle"
    /\ LET swept == sweep_before_parse(outstanding)
           s0 == st[p]
       IN  IF outcome # "ok"
           THEN /\ outstanding' = swept
                /\ popped' = popped
                /\ replayed' = replayed
                /\ st' = [st EXCEPT ![p] = Rejected(s0, outcome)]
                /\ UNCHANGED << lock_holders, lock_queue >>
           ELSE LET current_session == pop_session(swept, in_response_to)
                    got == get_remote_user_id(ava)
                    s1 == [s0 EXCEPT !.current_session = current_session]
                IN  /\ outstanding' = pop_table(swept, in_response_to)
                    /\ popped' = IF current_session = None THEN popped
                                 ELSE [popped EXCEPT ![in_response_to[1]] = @ + 1]
                    /\ replayed' =
                          IF /\ in_response_to # None
                             /\ popped[in_response_to[1]] > 0
                          THEN replayed \cup { in_response_to[1] }
                          ELSE replayed
                    /\ IF got.error # ""
                       THEN /\ st' = [st EXCEPT ![p] = Rejected(s1, got.error)]
                            /\ UNCHANGED << lock_holders, lock_queue >>
                       ELSE IF got.remote_user_id = << >>
                       THEN /\ st' = [st EXCEPT ![p] =
                                        Rejected(s1, "Failed to extract remote user id")]
                            /\ UNCHANGED << lock_holders, lock_queue >>
                       ELSE mapping_lock_queue(p,
                                [s1 EXCEPT !.ava = ava,
                                           !.remote_user_id = got.remote_user_id,
                                           !.bound_on_arrival =
                                               external_id_rows(got.remote_user_id) # {}])
    /\ UNCHANGED << clock, config, usernames, next_reqid, users, user_external_ids >>

\* range(1000) starts at 0
first_attempt == 0

\* A bug: the loop gives up one attempt early.
attempts_left_short(i) == i + 1 < MaxAttempts - 1

\* for i in range(1000): there is an attempt after attempt i
attempts_left(i) == i + 1 < MaxAttempts

\* The head of the collision loop for attempt i, up to its await: the
\* mapping provider is asked for the attributes and the localpart checked.
begin_attempt(p, s, i) ==
    LET attribute_dict == saml_response_to_user_attributes(s.ava, i)
        localpart == attribute_dict.mxid_localpart
    IN  IF attribute_dict.error # ""
        THEN Raise(p, [s EXCEPT !.ava = IdleState.ava], attribute_dict.error)
        ELSE IF localpart = << >>
        THEN Raise(p, [s EXCEPT !.ava = IdleState.ava],
                   "mapping provider did not return a mxid_localpart value")
        ELSE /\ st' = [st EXCEPT ![p] = [s EXCEPT !.pc = "loop_lookup",
                                                  !.i = i,
                                                  !.localpart = localpart]]
             /\ UNCHANGED << lock_holders, lock_queue >>

\* A bug: the existing mapping is not used.
existing_mapping_ignored(registered_user_id) == FALSE

\* if registered_user_id is not None
existing_mapping_found(registered_user_id) == registered_user_id # None

\* The grandfathered attribute is configured and the response carries it.
grandfathered_attribute_present(ava) ==
    /\ config.grandfathered_mxid_source_attribute # ""
    /\ ava[config.grandfathered_mxid_source_attribute] # None

\* await self._datastore.get_user_by_external_id(...) and what follows it
\* up to the next await.
get_user_by_external_id(p) ==
    /\ st[p].pc = "get_user_by_external_id"
    /\ LET remote_user_id == st[p].remote_user_id
           registered_user_id == store_get_user_by_external_id(remote_user_id)
           s0 == [st[p] EXCEPT !.calls = Append(@,
                      Call("get_user_by_external_id", remote_user_id,
                           registered_user_id, TRUE))]
       IN  IF existing_mapping_found(registered_user_id)
           THEN Return(p, [s0 EXCEPT !.found_existing = TRUE,
                                     !.ava = IdleState.ava],
                       registered_user_id[1])
           ELSE IF grandfathered_attribute_present(s0.ava)
           THEN /\ st' = [st EXCEPT ![p] = [s0 EXCEPT !.pc = "grandfather_lookup"]]
                /\ UNCHANGED << lock_holders, lock_queue >>
           ELSE begin_attempt(p, s0, first_attempt)
    /\ UNCHANGED << clock, config, usernames, outstanding, next_reqid, users,
                    user_external_ids, popped, replayed >>

\* The user id the grandfathered attribute maps to.
grandfathered_user_id(ava) ==
    LET attrval == ava[config.grandfathered_mxid_source_attribute][1]
    IN  UserID_to_string(map_username_to_mxid_localpart(attrval))

\* A bug: the accounts found are not used.
users_found_ignored(found) == FALSE

\* if users:
users_found(found) == found # {}

\* users = await self._datastore.get_users_by_id_case_insensitive(user_id)
\* in the backwards-compatibility branch; list(users.keys())[0] is any of
\* the matching user ids.
grandfather_lookup(p) ==
    /\ st[p].pc = "grandfather_lookup"
    /\ LET user_id == grandfathered_user_id(st[p].ava)
           found == store_get_users_by_id_case_insensitive(user_id)
           s0 == [st[p] EXCEPT !.calls = Append(@,
                      Call("get_users_by_id_case_insensitive", user_id, None, TRUE))]
       IN  IF users_found(found)
           THEN /\ \E registered_user_id \in found :
                      st' = [st EXCEPT ![p] =
                               [s0 EXCEPT !.pc = "grandfather_record",
                                          !.registered_user_id = Some(registered_user_id)]]
                /\ UNCHANGED << lock_holders, lock_queue >>
           ELSE begin_attempt(p, s0, first_attempt)
    /\ UNCHANGED << clock, config, usernames, outstanding, next_reqid, users,
                    user_external_ids, popped, replayed >>

\* A bug: the user id is returned and the mapping is not recorded.
record_external_id_skipped(p, s, ok) ==
    /\ user_external_ids' = user_external_ids
    /\ Return(p, [s EXCEPT !.ava = IdleState.ava], s.registered_user_id[1])

\* await self._datastore.record_user_external_id(...): the store inserts
\* the row (ok) or fails.  s is the request's state with the id to record.
record_external_id(p, s, ok) ==
    LET remote_user_id == s.remote_user_id
        registered_user_id == s.registered_user_id[1]
        s0 == [s EXCEPT !.calls = Append(@,
                   Call("record_user_external_id", remote_user_id,
                        Some(registered_user_id), ok)),
                        !.ava = IdleState.ava]
    IN  IF ok
        THEN /\ user_external_ids' = user_external_ids \cup
                     { external_id_row(remote_user_id, registered_user_id) }
             /\ Return(p, s0, registered_user_id)
        ELSE /\ user_external_ids' = user_external_ids
             /\ Raise(p, s0, "record_user_external_id failed")

\* The grandfathered mapping is recorded and returned.
grandfather_record(p, ok) ==
    /\ st[p].pc = "grandfather_record"
    /\ record_external_id(p, st[p], ok)
    /\ UNCHANGED << clock, config, usernames, outstanding, next_reqid, users, popped, replayed >>

\* A bug: the loop stops at a localpart that is taken.
mxid_is_taken(localpart) ==
    store_get_users_by_id_case_insensitive(UserID_to_string(localpart)) # {}

\* if not await self._datastore.get_users_by_id_case_insensitive(
\*        UserID(localpart, self._hostname).to_string())
mxid_is_free(localpart) ==
    store_get_users_by_id_case_insensitive(UserID_to_string(localpart)) = {}

\* One turn of the collision loop: the lookup of the candidate, then the
\* break, the next attempt, or the error after the last attempt.
loop_lookup(p) ==
    /\ st[p].pc = "loop_lookup"
    /\ LET s0 == [st[p] EXCEPT !.n_lookups = @ + 1]
       IN  IF mxid_is_free(s0.localpart)
           THEN /\ st' = [st EXCEPT ![p] = [s0 EXCEPT !.pc = "register_user"]]
                /\ UNCHANGED << lock_holders, lock_queue >>
           ELSE IF attempts_left(s0.i)
           THEN begin_attempt(p, s0, s0.i + 1)
           ELSE Raise(p, [s0 EXCEPT !.ava = IdleState.ava],
                      "500 Unable to generate a Matrix ID from the SAML response")
    /\ UNCHANGED << clock, config, usernames, outstanding, next_reqid, users,
                    user_external_ids, popped, replayed >>

\* A bug: a failure of register_user is swallowed and the user id it was
\* asked for is recorded.
register_user_unchecked(p, ok) ==
    /\ st[p].pc = "register_user"
    /\ LET user_id == UserID_to_string(st[p].localpart)
       IN  /\ users' = IF ok THEN users \cup { user_id } ELSE users
           /\ st' = [st EXCEPT ![p] =
                       [@ EXCEPT !.pc = "record_user_external_id",
                                 !.registered_user_id = Some(user_id),
                                 !.calls = Append(@,
                                     Call("register_user", st[p].localpart,
                                          IF ok THEN Some(user_id) ELSE None, ok))]]
           /\ UNCHANGED << lock_holders, lock_queue >>
    /\ UNCHANGED << clock, config, usernames, outstanding, next_reqid, user_external_ids,
                    popped, replayed >>

\* await self._registration_handler.register_user(localpart=localpart, ...):
\* the account is created and its user id returned (ok), or the call fails.
register_user(p, ok) ==
    /\ st[p].pc = "register_user"
    /\ LET user_id == UserID_to_string(st[p].localpart)
           s0 == [st[p] EXCEPT !.calls = Append(@,
                      Call("register_user", st[p].localpart,
                           IF ok THEN Some(user_id) ELSE None, ok))]
       IN  IF ok
           THEN /\ users' = users \cup { user_id }
                /\ st' = [st EXCEPT ![p] =
                            [s0 EXCEPT !.pc = "record_user_external_id",
                                       !.registered_user_id = Some(user_id)]]
                /\ UNCHANGED << lock_holders, lock_queue >>
           ELSE /\ users' = users
                /\ Raise(p, [s0 EXCEPT !.ava = IdleState.ava], "register_user failed")
    /\ UNCHANGED << clock, config, usernames, outstanding, next_reqid, user_external_ids,
                    popped, replayed >>

\* The new account's mapping is recorded and returned.
record_user_external_id(p, ok) ==
    /\ st[p].pc = "record_user_external_id"
    /\ record_external_id(p, st[p], ok)
    /\ UNCHANGED << clock, config, usernames, outstanding, next_reqid, users, popped, replayed >>

\* A bug: every recovered session is taken for an interactive auth session.
ui_auth_for_any_session(current_session) == current_session # None

\* if current_session and current_session.ui_auth_session_id
ui_auth_in_progress(current_session) ==
    /\ current_session # None
    /\ current_session[1].ui_auth_session_id # None
    /\ current_session[1].ui_auth_session_id[1] # << >>

\* handle_saml_response after _map_saml_response_to_user has returned:
\* the interactive auth session or the login is completed.
complete_sso(p) ==
    /\ st[p].pc = "complete"
    /\ LET current_session == st[p].current_session
       IN  st' = [st EXCEPT ![p] = [@ EXCEPT
                    !.pc = "done",
                    !.current_session = None,
                    !.completion =
                        IF ui_auth_in_progress(current_session)
                        THEN "complete_sso_ui_auth"
                        ELSE "complete_sso_login"]]
    /\ UNCHANGED << clock, config, usernames, outstanding, next_reqid, lock_holders,
                    lock_queue, users, user_external_ids, popped, replayed >>


\* ------------------------------------------------------------- inputs
\* hs.config: the mapping provider's source attribute and mapper, the
\* grandfathered attribute ("" when not configured), the session lifetime.
Config(source, mapper, grandfathered, lifetime) ==
    [mxid_source_attribute |-> source,
     mxid_mapper |-> mapper,
     grandfathered_mxid_source_attribute |-> grandfathered,
     session_lifetime |-> lifetime]

ConfigUid(lifetime) == Config("uid", "dotreplace", "legacy_uid", lifetime)
ConfigMxid(lifetime) == Config("mxid", "hexencode", "", lifetime)

\* The attributes of a response: the first value of each attribute it has.
Ava(uid, mxid, legacy_uid) ==
    [a \in AttrNames |->
        CASE a = "uid" -> uid
          [] a = "mxid" -> mxid
          [] OTHER -> legacy_uid]

Assertions ==
    { Ava(Some(<< "a" >>), Some(<< "a" >>), None),
      Ava(Some(<< "A" >>), Some(<< "a" >>), None),
      Ava(Some(<< "b" >>), None, Some(<< "b" >>)),
      Ava(Some(<< "_" >>), Some(<< "A", "!" >>), None),
      Ava(None, None, None),
      Ava(Some(<< >>), None, None) }

\* The accounts that exist when the handler starts: none; the candidates
\* of "a" for attempts 0 to 5, and "b"; accounts that differ in case.
TakenUpTo(base, n) == { UserID_to_string(localpart_for(base, j)) : j \in 0 .. n }

AccountStores ==
    { {},
      TakenUpTo(<< "a" >>, 5) \cup { UserID_to_string(<< "b" >>) },
      { UserID_to_string(<< "b" >>), UserID_to_string(<< "B" >>),
        UserID_to_string(<< "A" >>) } }

\* The bindings that exist when the handler starts: none, or "a" bound to
\* the account of that name.
BoundAccount == UserID_to_string(<< "a" >>)

BindingStores(accounts) ==
    { {} } \cup
    ( IF BoundAccount \in accounts
      THEN { { external_id_row(<< "a" >>, BoundAccount) } } ELSE {} )

UiAuthSessions == { None, Some(<< "s" >>) }

\* The request slots are interchangeable: the responses take them in order.
arrives(p) == \A q \in Procs : q < p => st[q].pc # "idle"

\* A response the library rejects carries nothing the handler reads.
NoAva == Ava(None, None, None)

InitCommon ==
    /\ clock = 0
    /\ outstanding = [r \in ReqIds |-> None]
    /\ popped = [r \in ReqIds |-> 0]
    /\ replayed = {}
    /\ next_reqid = 1
    /\ lock_holders = {}
    /\ lock_queue = << >>
    /\ st = [p \in Procs |-> IdleState]
    /\ usernames = << >>

\* ------------------------------------------------ the resolution alone
\* Responses that answer no outstanding request, under both configurations
\* and every account store; the collaborators may fail.
Init ==
    /\ InitCommon
    /\ config \in { ConfigUid(0), ConfigMxid(0) }
    /\ users \in AccountStores
    /\ user_external_ids \in BindingStores(users)

Next ==
    \/ \E p \in Procs, outcome \in ParseOutcomes \ { "ok" } :
          arrives(p) /\ handle_saml_response(p, outcome, None, NoAva)
    \/ \E p \in Procs, ava \in Assertions :
          arrives(p) /\ handle_saml_response(p, "ok", None, ava)
    \/ \E p \in Procs : get_user_by_external_id(p)
    \/ \E p \in Procs : grandfather_lookup(p)
    \/ \E p \in Procs, ok \in BOOLEAN : grandfather_record(p, ok)
    \/ \E p \in Procs : loop_lookup(p)
    \/ \E p \in Procs, ok \in BOOLEAN : register_user(p, ok)
    \/ \E p \in Procs, ok \in BOOLEAN : record_user_external_id(p, ok)
    \/ \E p \in Procs : complete_sso(p)

Spec == Init /\ [][Next]_vars

\* --------------------------------------------------- the session table
\* Redirects, the clock and responses of one remote user id, which is
\* bound to an account: every resolution is a repeated login.
SessionAssertions ==
    { Ava(Some(<< "a" >>), None, None), Ava(None, None, None) }

InitSessions ==
    /\ InitCommon
    /\ config \in { ConfigUid(lifetime) : lifetime \in SessionLifetimes }
    /\ users = { BoundAccount }
    /\ user_external_ids = { external_id_row(<< "a" >>, BoundAccount) }

NextSessions ==
    \/ \E ui_auth_session_id \in UiAuthSessions :
          redirect_request(ui_auth_session_id)
    \/ Tick
    \/ \E p \in Procs :
          /\ arrives(p)
          /\ handle_saml_response(p, "400 Unable to parse SAML2 response",
                                  None, NoAva)
    \/ \E p \in Procs, ava \in SessionAssertions,
          in_response_to \in { None } \cup { Some(r) : r \in ReqIds } :
          arrives(p) /\ handle_saml_response(p, "ok", in_response_to, ava)
    \/ \E p \in Procs : get_user_by_external_id(p)
    \/ \E p \in Procs : complete_sso(p)

SpecSessions == InitSessions /\ [][NextSessions]_vars

\* ------------------------------------------------ the collision loop
\* Every candidate of "a" taken, or every candidate but the last.
FullStore == TakenUpTo(<< "a" >>, MaxAttempts - 1)
AlmostFullStore == TakenUpTo(<< "a" >>, MaxAttempts - 2)
ExhaustionStores == { FullStore, AlmostFullStore }

InitExhaustion ==
    /\ InitCommon
    /\ config = ConfigUid(0)
    /\ users \in ExhaustionStores
    /\ user_external_ids = {}

NextExhaustion ==
    \/ \E p \in Procs :
          /\ arrives(p)
          /\ handle_saml_response(p, "ok", None, Ava(Some(<< "a" >>), None, None))
    \/ \E p \in Procs : get_user_by_external_id(p)
    \/ \E p \in Procs : loop_lookup(p)
    \/ \E p \in Procs : register_user(p, TRUE)
    \/ \E p \in Procs : record_user_external_id(p, TRUE)
    \/ \E p \in Procs : complete_sso(p)

SpecExhaustion == InitExhaustion /\ [][NextExhaustion]_vars

\* ------------------------------------------------------ fair scheduling
\* The requests of a run that starts with every candidate taken: the one
\* that uses up its attempts and the one that waits behind it.
ExhaustionRequests == { 1, 2 }

\* Every candidate of "a" has an account.
StoreIsFull == users = FullStore

\* The resolution alone, and the run that starts with every candidate of
\* "a" taken.
InitFair ==
    \/ Init
    \/ InitExhaustion /\ StoreIsFull

\* With every candidate taken the responses are those of "a", which use up
\* the 1000 attempts; otherwise every response of Next.
NextFair ==
    \/ ~ StoreIsFull /\ Next
    \/ \E p \in Procs \cap ExhaustionRequests :
          /\ StoreIsFull
          /\ arrives(p)
          /\ handle_saml_response(p, "ok", None, Ava(Some(<< "a" >>), None, None))
    \/ \E p \in Procs : StoreIsFull /\ get_user_by_external_id(p)
    \/ \E p \in Procs : StoreIsFull /\ loop_lookup(p)

\* Fair scheduling: the reactor runs every coroutine that can run.
FairSpec ==
    /\ InitFair /\ [][NextFair]_vars
    /\ \A p \in Procs :
          /\ WF_vars(get_user_by_external_id(p))
          /\ WF_vars(grandfather_lookup(p))
          /\ WF_vars(\E ok \in BOOLEAN : grandfather_record(p, ok))
          /\ WF_vars(loop_lookup(p))
          /\ WF_vars(\E ok \in BOOLEAN : register_user(p, ok))
          /\ WF_vars(\E ok \in BOOLEAN : record_user_external_id(p, ok))
          /\ WF_vars(complete_sso(p))

\* ------------------------------------------------ rejected responses
\* Redirects, the clock and responses that end in a 400 error: rejected by
\* the library, without a uid, or without the mapping provider's source
\* attribute.
RejectedAssertions ==
    { Ava(Some(<< "a" >>), None, None), Ava(None, None, None) }

InitRejections ==
    /\ InitCommon
    /\ config \in { ConfigMxid(lifetime) : lifetime \in SessionLifetimes }
    /\ users = { BoundAccount }
    /\ user_external_ids \in BindingStores(users)

NextRejections ==
    \/ redirect_request(None)
    \/ Tick
    \/ \E p \in Procs, outcome \in ParseOutcomes \ { "ok" } :
          arrives(p) /\ handle_saml_response(p, outcome, None, NoAva)
    \/ \E p \in Procs, ava \in RejectedAssertions,
          in_response_to \in { None } \cup { Some(r) : r \in ReqIds } :
          arrives(p) /\ handle_saml_response(p, "ok", in_response_to, ava)
    \/ \E p \in Procs : get_user_by_external_id(p)
    \/ \E p \in Procs : complete_sso(p)

SpecRejections == InitRejections /\ [][NextRejections]_vars

\* ------------------------------------------------ the normalizer alone
\* The strings of at most MaxLen characters over an upper-case letter, a
\* lower-case letter, the underscore, the dot and a character that is not
\* allowed in a localpart.
Alphabet == { "a", "A", "_", ".", "!" }

RECURSIVE Strings(_)
Strings(n) ==
    IF n = 0 THEN { << >> }
    ELSE Strings(n - 1) \cup
         { Append(w, c) : w \in { v \in Strings(n - 1) : Len(v) = n - 1 },
                          c \in Alphabet }

\* dot_replace_for_mxid is applied to the last result.
normalize ==
    /\ Len(usernames) \in 1 .. 2
    /\ usernames' = Append(usernames, dot_replace_for_mxid(usernames[Len(usernames)]))
    /\ UNCHANGED << clock, config, outstanding, next_reqid, lock_holders,
                    lock_queue, users, user_external_ids, st, popped, replayed >>

InitNormalizer ==
    /\ clock = 0
    /\ config = ConfigUid(0)
    /\ outstanding = [r \in ReqIds |-> None]
    /\ popped = [r \in ReqIds |-> 0]
    /\ replayed = {}
    /\ next_reqid = 1
    /\ lock_holders = {}
    /\ lock_queue = << >>
    /\ st = [p \in Procs |-> IdleState]
    /\ users = {}
    /\ user_external_ids = {}
    /\ usernames \in { << username >> : username \in Strings(MaxLen) }

NextNormalizer == normalize

SpecNormalizer == InitNormalizer /\ [][NextNormalizer]_vars

\* ------------------------------------------------ repeated request ids
\* The handler stores whatever request id the library returns: here the
\* library may return an id it has returned before.
redirect_request_again(reqid, ui_auth_session_id) ==
    /\ next_reqid' = next_reqid
    /\ handle_redirect_request(reqid, ui_auth_session_id)

InitRedirects ==
    /\ InitCommon
    /\ config = ConfigUid(0)
    /\ users = { BoundAccount }
    /\ user_external_ids = { external_id_row(<< "a" >>, BoundAccount) }

NextRedirects ==
    \/ \E reqid \in ReqIds, ui_auth_session_id \in UiAuthSessions :
          redirect_request_again(reqid, ui_auth_session_id)
    \/ \E p \in Procs, in_response_to \in { None } \cup { Some(r) : r \in ReqIds } :
          /\ arrives(p)
          /\ handle_saml_response(p, "ok", in_response_to,
                                  Ava(Some(<< "a" >>), None, None))
    \/ \E p \in Procs : get_user_by_external_id(p)
    \/ \E p \in Procs : complete_sso(p)

SpecRedirects == InitRedirects /\ [][NextRedirects]_vars

\* ------------------------------------------------ failures after the pop
\* Redirects and responses that fail after the session has been popped:
\* without a uid, without the mapping provider's source attribute, with an
\* empty localpart, or with a collaborator that fails.
FailureAssertions ==
    { Ava(Some(<< "a" >>), Some(<< "a" >>), None),
      Ava(Some(<< "a" >>), None, None),
      Ava(Some(<< "a" >>), Some(<< >>), None),
      Ava(None, None, None) }

InitFailures ==
    /\ InitCommon
    /\ config = ConfigMxid(0)
    /\ users \in { {}, FullStore }
    /\ user_external_ids = {}

NextFailures ==
    \/ ~ StoreIsFull /\ redirect_request(None)
    \/ \E p \in Procs, ava \in FailureAssertions,
          in_response_to \in { None } \cup { Some(r) : r \in ReqIds } :
          /\ ~ StoreIsFull
          /\ arrives(p)
          /\ handle_saml_response(p, "ok", in_response_to, ava)
    \/ StoreIsFull /\ next_reqid = 1 /\ redirect_request(None)
    \/ \E p \in Procs \cap ExhaustionRequests,
          in_response_to \in { None } \cup { Some(r) : r \in ReqIds } :
          /\ StoreIsFull
          /\ arrives(p)
          /\ handle_saml_response(p, "ok", in_response_to,
                                  Ava(Some(<< "a" >>), Some(<< "a" >>), None))
    \/ \E p \in Procs : get_user_by_external_id(p)
    \/ \E p \in Procs : loop_lookup(p)
    \/ \E p \in Procs, ok \in BOOLEAN : register_user(p, ok)
    \/ \E p \in Procs, ok \in BOOLEAN : record_user_external_id(p, ok)
    \/ \E p \in Procs : complete_sso(p)

SpecFailures == InitFailures /\ [][NextFailures]_vars


\* ===================================================================
\* Properties
\* ===================================================================
\* The request has reached the mapping lock with a remote user id.
Reached(p) == st[p].pc \notin { "idle" } /\ st[p].remote_user_id # << >>

\* _map_saml_response_to_user has returned a user id.
Returned(p) == st[p].pc \in { "complete", "done" }

\* The request is between the lock's acquisition and its release.
InsideLock(p) ==
    st[p].pc \in { "get_user_by_external_id", "grandfather_lookup",
                   "grandfather_record", "loop_lookup", "register_user",
                   "record_user_external_id" }

CallsOf(p, op) == { k \in 1 .. Len(st[p].calls) : st[p].calls[k].op = op }
Registered(p) == CallsOf(p, "register_user") # {}
Recorded(p) == CallsOf(p, "record_user_external_id") # {}
RecordedOk(p) ==
    \E k \in CallsOf(p, "record_user_external_id") : st[p].calls[k].ok
AdoptedGrandfathered(p) ==
    /\ CallsOf(p, "get_users_by_id_case_insensitive") # {}
    /\ ~ Registered(p)
    /\ Recorded(p)

\* The remote user ids of the requests that reached the lock.
RemoteUserIds == { st[p].remote_user_id : p \in { q \in Procs : Reached(q) } }

\* The only call of a request that found an existing mapping.
FoundCall(p) ==
    Call("get_user_by_external_id", st[p].remote_user_id,
         st[p].registered_user_id, TRUE)

\* p and q are the two resolutions of one remote user id, which had no
\* binding when either arrived, and both returned a user id.
TwoResolutions(p, q) ==
    /\ p # q
    /\ Reached(p) /\ Reached(q)
    /\ st[p].remote_user_id = st[q].remote_user_id
    /\ ~ st[p].bound_on_arrival /\ ~ st[q].bound_on_arrival
    /\ Returned(p) /\ Returned(q)
    /\ \A r \in Procs \ { p, q } :
          Reached(r) => st[r].remote_user_id # st[p].remote_user_id

\* C1 as stated: of two concurrent resolutions of one unbound remote user
\* id, exactly one calls register_user and exactly one calls
\* record_user_external_id; the other finds the binding and returns the
\* same user id.
C1_ExactlyOneRegisters ==
    \A p, q \in Procs :
        TwoResolutions(p, q) =>
            /\ Cardinality({ x \in { p, q } : Registered(x) }) = 1
            /\ Cardinality({ x \in { p, q } : Recorded(x) }) = 1
            /\ st[p].registered_user_id = st[q].registered_user_id

\* C1, amended: of two concurrent resolutions of one unbound remote user id
\* that both return a user id, exactly one calls record_user_external_id;
\* that one calls register_user exactly once, unless it adopts an existing
\* account through the grandfathered attribute, and then neither calls it;
\* the other makes the one call get_user_by_external_id, finds the new
\* binding and returns the same user id.
C1_OneCreatesBinding ==
    \A p, q \in Procs :
        TwoResolutions(p, q) /\ Recorded(p) =>
            /\ ~ Recorded(q)
            /\ ~ Registered(q)
            /\ st[q].found_existing
            /\ st[q].calls = << FoundCall(q) >>
            /\ st[p].registered_user_id = st[q].registered_user_id
            /\ Cardinality(CallsOf(p, "register_user")) <= 1
            /\ Cardinality(CallsOf(p, "record_user_external_id")) = 1
            /\ Registered(p) <=> ~ AdoptedGrandfathered(p)

\* C1, the other half of the amended claim: one of the two records.
C1_SomeoneRecords ==
    \A p, q \in Procs :
        TwoResolutions(p, q) => Recorded(p) \/ Recorded(q)

\* C1, amended (both halves)
C1_NoDuplicateAccount == C1_OneCreatesBinding /\ C1_SomeoneRecords

C1_Witness ==
    \E p, q \in Procs :
        /\ TwoResolutions(p, q)
        /\ Registered(p) /\ Recorded(p)
        /\ st[q].found_existing
        /\ st[p].pc = "done" /\ st[q].pc = "done"

\* The calls of record_user_external_id for a remote user id, and those
\* that inserted a row.
RecordCalls(e) == { p \in Procs : Recorded(p) /\ st[p].remote_user_id = e }
RecordOkCalls(e) == { p \in Procs : RecordedOk(p) /\ st[p].remote_user_id = e }

\* C2 as stated (its state part): each remote user id has at most one
\* binding and record_user_external_id has been called at most once for
\* it, also in runs where a collaborator fails.
C2_RecordCalledAtMostOnce ==
    \A e \in RemoteUserIds :
        /\ Cardinality(external_id_rows(e)) <= 1
        /\ Cardinality(RecordCalls(e)) <= 1

\* C2, amended: each remote user id has at most one binding,
\* record_user_external_id has inserted a row for it at most once (a call
\* that failed may be followed by another call), and a binding once
\* created stays and never changes to another user id.
C2_AtMostOneBinding ==
    /\ [](\A e \in RemoteUserIds :
             /\ Cardinality(external_id_rows(e)) <= 1
             /\ Cardinality(RecordOkCalls(e)) <= 1
             /\ \A p \in RecordOkCalls(e) :
                   external_id_rows(e) =
                       { external_id_row(e, st[p].registered_user_id[1]) })
    /\ [][\A row \in user_external_ids : row \in user_external_ids']_vars

C2_Witness ==
    \E p, q \in Procs :
        /\ p # q
        /\ st[p].remote_user_id = st[q].remote_user_id
        /\ Recorded(p) /\ ~ RecordedOk(p)
        /\ RecordedOk(q)
        /\ Cardinality(external_id_rows(st[q].remote_user_id)) = 1

\* The position of a request in the lock's queue (0: not in it).
QueuePositions(p) == { k \in 1 .. Len(lock_queue) : lock_queue[k] = p }

\* C3: at most one resolution is between the lookup of the binding and the
\* recording of it, at whichever await it is suspended; it holds the lock,
\* and every other request that has reached the lock waits in the queue.
C3_OneInsideLock ==
    /\ Cardinality({ p \in Procs : InsideLock(p) }) <= 1
    /\ \A p \in Procs : InsideLock(p) => lock_holders = { p }
    /\ \A p \in Procs :
          st[p].pc = "lock_wait" =>
              /\ Cardinality(QueuePositions(p)) = 1
              /\ \E q \in Procs : q # p /\ InsideLock(q)
    /\ \A k \in 1 .. Len(lock_queue) : st[lock_queue[k]].pc = "lock_wait"

C3_Witness ==
    \E p, q \in Procs :
        /\ st[p].pc = "record_user_external_id"
        /\ st[q].pc = "lock_wait"

\* C4: a resolution whose lookup finds a binding returns the bound user
\* id after that one call, with no call of register_user,
\* get_users_by_id_case_insensitive or record_user_external_id, and leaves
\* the accounts and the bindings as they were; so does every repetition.
C4_ExistingBindingReturned ==
    /\ [](\A p \in Procs :
             st[p].found_existing =>
                 /\ Returned(p)
                 /\ st[p].calls = << FoundCall(p) >>
                 /\ st[p].n_lookups = 0
                 /\ external_id_rows(st[p].remote_user_id) =
                        { external_id_row(st[p].remote_user_id,
                                          st[p].registered_user_id[1]) })
    /\ [][\A p \in Procs :
             /\ ( /\ st[p].pc = "get_user_by_external_id"
                  /\ external_id_rows(st[p].remote_user_id) # {}
                  /\ st'[p] # st[p] )
                => /\ st'[p].pc = "complete"
                   /\ st'[p].found_existing
                   /\ st'[p].registered_user_id =
                          store_get_user_by_external_id(st[p].remote_user_id)
                   /\ users' = users
                   /\ user_external_ids' = user_external_ids
             /\ ( st[p].found_existing /\ st'[p] # st[p] )
                => /\ users' = users
                   /\ user_external_ids' = user_external_ids]_vars

C4_Witness ==
    \E p, q \in Procs :
        /\ p # q
        /\ st[p].found_existing /\ st[q].found_existing
        /\ st[p].remote_user_id = st[q].remote_user_id
        /\ st[p].registered_user_id = st[q].registered_user_id
        /\ st[p].pc = "done" /\ st[q].pc = "done"

\* The calls of a request that are not lookups.
RECURSIVE Writes(_)
Writes(calls) ==
    IF calls = << >> THEN << >>
    ELSE (IF Head(calls).op \in { "register_user", "record_user_external_id" }
             THEN << Head(calls) >> ELSE << >>) \o Writes(Tail(calls))

\* C5: when a resolution has returned user id U for remote user id E, the
\* binding store maps ("saml", E) to U; if it provisioned the account, it
\* made exactly one register_user call and then exactly one
\* record_user_external_id("saml", E, U) call with the U register_user
\* returned, and then returned.
C5_BindingExistsOnReturn ==
    \A p \in Procs :
        Returned(p) =>
            LET E == st[p].remote_user_id
                U == st[p].registered_user_id[1]
            IN  /\ external_id_row(E, U) \in user_external_ids
                /\ Registered(p) =>
                      /\ Len(Writes(st[p].calls)) = 2
                      /\ Writes(st[p].calls)[1] =
                            Call("register_user", st[p].localpart, Some(U), TRUE)
                      /\ Writes(st[p].calls)[2] =
                            Call("record_user_external_id", E, Some(U), TRUE)
                      /\ st[p].calls[Len(st[p].calls)].op =
                            "record_user_external_id"

C5_Witness ==
    \E p \in Procs :
        /\ st[p].pc = "complete"
        /\ Registered(p)
        /\ st[p].remote_user_id = << "a" >>
        /\ external_id_row(<< "a" >>, UserID_to_string(<< "a" >>))
               \in user_external_ids


\* A request is handled in this step: the sweep, the parse and the pop.
Handles(p) == st[p].pc = "idle" /\ st'[p].pc # "idle"

\* C6: the session of a request id is recovered by at most one response;
\* what that response recovers is the session that was inserted (an entry
\* is never modified while it is in the table); a later response that
\* names the id recovers no session.
C6_SessionPoppedOnce ==
    /\ [](\A r \in ReqIds :
             /\ popped[r] <= 1
             /\ popped[r] = 1 => outstanding[r] = None
             /\ r >= next_reqid => outstanding[r] = None /\ popped[r] = 0
             /\ r \in replayed => popped[r] = 1)
    /\ [][/\ \A r \in ReqIds :
                /\ ( outstanding[r] # None /\ outstanding'[r] # None )
                      => outstanding'[r] = outstanding[r]
                /\ ( r = next_reqid /\ next_reqid' # next_reqid )
                      => /\ outstanding'[r] # None
                         /\ outstanding'[r][1].creation_time = clock
          /\ \A p \in Procs :
                Handles(p) =>
                    /\ \A r \in ReqIds :
                          popped'[r] # popped[r] =>
                              /\ popped[r] = 0 /\ popped'[r] = 1
                              /\ outstanding[r] # None
                              /\ outstanding'[r] = None
                              /\ \/ st'[p].current_session = outstanding[r]
                                 \/ st'[p].pc = "failed"
                    /\ st'[p].current_session # None => popped' # popped
                    /\ replayed' # replayed =>
                          /\ st'[p].current_session = None
                          /\ popped' = popped]_vars

\* One session has been recovered, by a response that still holds it, and
\* another response that named the same id has recovered none.
C6_Witness ==
    \E r \in replayed, p, q \in Procs :
        /\ popped[r] = 1
        /\ \A r2 \in ReqIds \ { r } : popped[r2] = 0
        /\ st[p].current_session # None
        /\ q # p
        /\ st[q].pc \in { "lock_wait", "complete", "done" }
        /\ st[q].current_session = None

\* What a handling step does to the entry of r, given whether the sweep
\* finds it stale: a stale entry is removed and is not recovered; any other
\* entry is left as it is, unless the pop that follows the sweep takes it.
SweepRemoves(r, stale) ==
    IF stale
    THEN outstanding'[r] = None /\ popped'[r] = popped[r]
    ELSE \/ outstanding'[r] = outstanding[r] /\ popped'[r] = popped[r]
         \/ /\ outstanding[r] # None
            /\ outstanding'[r] = None
            /\ popped'[r] = popped[r] + 1

\* C7 as stated: the sweep removes exactly the entries with
\* creation_time <= now - lifetime and leaves the others as they are.
C7_SweepRemovesAtLifetime ==
    [][\A p \in Procs :
          Handles(p) =>
              \A r \in ReqIds :
                  SweepRemoves(r, /\ outstanding[r] # None
                                  /\ outstanding[r][1].creation_time
                                         <= clock - config.session_lifetime)]_vars

\* C7, amended: the sweep removes exactly the entries with
\* creation_time < now - lifetime (an entry whose age equals the lifetime
\* is kept) and leaves the others as they are.
C7_SweepRemovesPastLifetime ==
    [][\A p \in Procs :
          Handles(p) =>
              \A r \in ReqIds :
                  SweepRemoves(r, /\ outstanding[r] # None
                                  /\ outstanding[r][1].creation_time
                                         < clock - config.session_lifetime)]_vars

\* A response has just been handled (it recovered a session created at the
\* present time) and an older entry whose age equals the lifetime is still
\* in the table.
C7_Witness ==
    \E p \in Procs, r \in ReqIds :
        /\ config.session_lifetime >= 1
        /\ st[p].current_session # None
        /\ st[p].current_session[1].creation_time = clock
        /\ outstanding[r] # None
        /\ clock - outstanding[r][1].creation_time = config.session_lifetime

\* C8: the sweep runs in the same step as, and before, the pop of the
\* session: a response handled at time now never recovers a session with
\* now - creation_time > lifetime, and right after the step no such entry
\* is in the table.
C8_SweepBeforePop ==
    [][\A p \in Procs :
          Handles(p) =>
              /\ st'[p].current_session # None =>
                    clock - st'[p].current_session[1].creation_time
                        <= config.session_lifetime
              /\ \A r \in ReqIds :
                    outstanding'[r] # None =>
                        clock - outstanding'[r][1].creation_time
                            <= config.session_lifetime]_vars

\* The sweep has removed a session no response recovered, and a response
\* has recovered another.
C8_Witness ==
    \E r \in ReqIds, p \in Procs :
        /\ r < next_reqid /\ outstanding[r] = None /\ popped[r] = 0
        /\ st[p].current_session # None
        /\ clock - st[p].current_session[1].creation_time
               <= config.session_lifetime

\* The candidate of the mapping provider for a request at an attempt.
Candidate(p, j) == saml_response_to_user_attributes(st[p].ava, j).mxid_localpart

\* C9: the localpart passed to register_user is the candidate of the
\* lowest attempt 0..999 with no case-insensitive match among the accounts:
\* the candidates of the earlier attempts all exist and one lookup was made
\* per attempt up to it; with the candidates 0 to 5 of "a" taken, "a6".
C9_FirstFreeCandidate ==
    \A p \in Procs :
        st[p].pc = "register_user" =>
            /\ st[p].i \in 0 .. MaxAttempts - 1
            /\ st[p].localpart = Candidate(p, st[p].i)
            /\ store_get_users_by_id_case_insensitive(
                   UserID_to_string(st[p].localpart)) = {}
            /\ \A j \in 0 .. st[p].i - 1 :
                  store_get_users_by_id_case_insensitive(
                      UserID_to_string(Candidate(p, j))) # {}
            /\ st[p].n_lookups = st[p].i + 1
            /\ ( /\ Candidate(p, 0) = << "a" >>
                 /\ TakenUpTo(<< "a" >>, 5) \subseteq users
                 /\ UserID_to_string(<< "a", "6" >>) \notin users )
               => st[p].localpart = << "a", "6" >>

C9_Witness ==
    \E p \in Procs :
        /\ st[p].pc = "register_user"
        /\ st[p].i = 6
        /\ st[p].localpart = << "a", "6" >>
        /\ st[p].n_lookups = 7

\* C10: when every candidate 0..999 has an account, the resolution fails
\* with the 500 error after exactly 1000 lookups, without a call of
\* register_user or record_user_external_id, and the accounts and the
\* bindings are as they were.
Exhausted(p) ==
    st[p].error = "500 Unable to generate a Matrix ID from the SAML response"

C10_ExhaustionFails ==
    \A p \in Procs :
        /\ Exhausted(p) =>
              /\ st[p].pc = "failed"
              /\ st[p].n_lookups = MaxAttempts
              /\ st[p].i = MaxAttempts - 1
              /\ ~ Registered(p) /\ ~ Recorded(p)
              /\ st[p].registered_user_id = None
              /\ users = FullStore
              /\ user_external_ids = {}
        /\ ( /\ users = FullStore
             /\ user_external_ids = {}
             /\ st[p].pc \in { "register_user", "complete", "done", "failed" } )
           => Exhausted(p)

C10_Witness ==
    \E p \in Procs :
        /\ Exhausted(p)
        /\ st[p].n_lookups = 1000
        /\ user_external_ids = {}

\* The request failed in register_user.
RegisterFailed(p) == st[p].error = "register_user failed"

\* C11: a resolution whose register_user fails ends with that failure (no
\* completion), has not called record_user_external_id, and the bindings
\* did not change while it was inside the lock; every binding points to an
\* account that exists (one that existed at the start or that a successful
\* register_user created).
C11_RegisterFailureLeavesNoBinding ==
    /\ [](/\ \A p \in Procs :
                RegisterFailed(p) =>
                    /\ st[p].pc = "failed"
                    /\ st[p].completion = ""
                    /\ ~ Recorded(p)
                    /\ st[p].calls[Len(st[p].calls)] =
                           Call("register_user", st[p].localpart, None, FALSE)
                    /\ p \notin lock_holders
          /\ \A row \in user_external_ids : row.user_id \in users)
    /\ [][\A p \in Procs :
             /\ ( InsideLock(p) /\ CallsOf(p, "record_user_external_id") = {}
                  /\ \A k \in 1 .. Len(st'[p].calls) :
                         st'[p].calls[k].op # "record_user_external_id" )
                => user_external_ids' = user_external_ids
             /\ ( ~ RegisterFailed(p) /\ st'[p].error = "register_user failed" )
                => /\ users' = users
                   /\ user_external_ids' = user_external_ids]_vars

\* register_user has failed for one resolution and no binding exists for
\* its remote user id.
C11_Witness ==
    \E p \in Procs :
        /\ RegisterFailed(p)
        /\ st[p].remote_user_id = << "a" >>
        /\ external_id_rows(<< "a" >>) = {}
        /\ st[p].n_lookups = 7

\* The errors of the mapping provider's saml_response_to_user_attributes.
MapperErrors ==
    { "400 mxid source not in SAML2 response",
      "mapping provider did not return a mxid_localpart value" }

\* saml_response_to_user_attributes has been called for the request.
MapperCalled(p) == st[p].localpart # << >> \/ st[p].error \in MapperErrors

\* The calls of a resolution that adopted an account.
AdoptionCalls(p) ==
    << Call("get_user_by_external_id", st[p].remote_user_id, None, TRUE),
       Call("get_users_by_id_case_insensitive",
            st[p].registered_user_id[1], None, TRUE),
       Call("record_user_external_id", st[p].remote_user_id,
            st[p].registered_user_id, TRUE) >>

\* C12: a resolution that finds no binding, with the grandfathered
\* attribute configured and present and its normalized value matching one
\* account A case-insensitively, goes on to record ("saml", remote user id)
\* -> A and returns A without calling the mapping provider's
\* saml_response_to_user_attributes or register_user; no resolution both
\* adopts an account and provisions one.
C12_LegacyAdoption ==
    /\ [](\A p \in Procs :
             /\ ( st[p].pc = "grandfather_record" \/ AdoptedGrandfathered(p) )
                => /\ ~ MapperCalled(p)
                   /\ ~ Registered(p)
                   /\ st[p].n_lookups = 0
                   /\ st[p].registered_user_id # None
                   /\ st[p].registered_user_id[1] \in users
             /\ ( AdoptedGrandfathered(p) /\ Returned(p) )
                => /\ external_id_rows(st[p].remote_user_id) =
                          { external_id_row(st[p].remote_user_id,
                                            st[p].registered_user_id[1]) }
                   /\ Len(st[p].calls) = 3
                   /\ st[p].calls[1] = AdoptionCalls(p)[1]
                   /\ st[p].calls[2].op = AdoptionCalls(p)[2].op
                   /\ st[p].calls[3] = AdoptionCalls(p)[3]
             /\ Registered(p) =>
                   /\ CallsOf(p, "get_users_by_id_case_insensitive") = {}
                      \/ st[p].n_lookups > 0
                   /\ Cardinality(CallsOf(p, "record_user_external_id")) <= 1)
    /\ [][\A p \in Procs :
             ( st[p].pc = "grandfather_lookup" /\ st'[p] # st[p] ) =>
                 LET found == store_get_users_by_id_case_insensitive(
                                  grandfathered_user_id(st[p].ava))
                 IN  /\ external_id_rows(st[p].remote_user_id) = {}
                     /\ grandfathered_attribute_present(st[p].ava)
                     /\ Cardinality(found) = 1 =>
                            /\ st'[p].pc = "grandfather_record"
                            /\ { st'[p].registered_user_id[1] } = found
                     /\ users' = users
                     /\ user_external_ids' = user_external_ids]_vars

\* The account @b:h has been adopted for the remote user id "b".
C12_Witness ==
    \E p \in Procs :
        /\ AdoptedGrandfathered(p) /\ Returned(p)
        /\ st[p].remote_user_id = << "b" >>
        /\ st[p].registered_user_id = Some(UserID_to_string(<< "b" >>))
        /\ UserID_to_string(<< "B" >>) \notin users
        /\ external_id_row(<< "b" >>, UserID_to_string(<< "b" >>))
               \in user_external_ids

\* The client-protocol errors: the response cannot be parsed, is not
\* signed, has no uid, or lacks the mapping provider's source attribute.
ClientErrors ==
    { "400 Unable to parse SAML2 response",
      "400 SAML2 response was not signed",
      "400 'uid' not in SAML2 response",
      "400 mxid source not in SAML2 response" }

\* The request fails in this step with a client-protocol error.
FailsWithClientError(p) ==
    /\ st[p].pc # "failed"
    /\ st'[p].pc = "failed"
    /\ st'[p].error \in ClientErrors

\* C13 as stated: when the handling of a response fails with a 400 error,
\* the session table and the bindings are what they were before the
\* request was handled: the step in which it was handled left them as they
\* were, and it holds no session taken from the table.
C13_ClientErrorLeavesState ==
    [][\A p \in Procs :
          /\ ( Handles(p) /\ FailsWithClientError(p) )
             => /\ outstanding' = outstanding
                /\ popped' = popped
                /\ user_external_ids' = user_external_ids
          /\ ( ~ Handles(p) /\ FailsWithClientError(p) )
             => /\ st[p].current_session = None
                /\ outstanding' = outstanding
                /\ user_external_ids' = user_external_ids]_vars

\* The entry of r is stale when the response is handled.
Stale(r) ==
    /\ outstanding[r] # None
    /\ outstanding[r][1].creation_time < clock - config.session_lifetime

\* C13, amended: when the handling of a response fails with a 400 error,
\* the bindings and the accounts are what they were before; the session
\* table has lost the entries the sweep found stale and, when the error is
\* the missing uid or the missing source attribute, the session the
\* response named, which was popped before the error and is not put back;
\* no other entry is removed, added or modified.
C13_ClientErrorLeavesBindings ==
    /\ [](\A p \in Procs :
             ( st[p].pc = "failed" /\ st[p].error \in ClientErrors )
                => ~ Registered(p) /\ ~ Recorded(p) /\ st[p].completion = "")
    /\ [][\A p \in Procs :
             /\ ( Handles(p) /\ FailsWithClientError(p) )
                => /\ \A r \in ReqIds : SweepRemoves(r, Stale(r))
                   /\ st'[p].error \in { "400 Unable to parse SAML2 response",
                                         "400 SAML2 response was not signed" }
                         => popped' = popped
                   /\ users' = users
                   /\ user_external_ids' = user_external_ids
             /\ ( ~ Handles(p) /\ FailsWithClientError(p) )
                => /\ outstanding' = outstanding
                   /\ popped' = popped
                   /\ users' = users
                   /\ user_external_ids' = user_external_ids]_vars

\* A response without a uid has failed after it popped the session it
\* named, and an entry the sweep found stale is gone too.
C13_Witness ==
    \E r1, r2 \in ReqIds :
        /\ st[1].pc = "failed"
        /\ st[1].error = "400 'uid' not in SAML2 response"
        /\ \A q \in Procs \ { 1 } : st[q].pc = "idle"
        /\ popped[r1] = 1 /\ outstanding[r1] = None
        /\ r2 < next_reqid /\ popped[r2] = 0 /\ outstanding[r2] = None

\* C14: a response whose resolution returned a user id is completed by
\* exactly one collaborator, after the return: complete_sso_ui_auth when a
\* session was recovered and it carries a ui_auth_session_id, otherwise
\* complete_sso_login; a response whose resolution failed, or has not
\* returned yet, is completed by neither.
C14_OneCompletion ==
    /\ [](\A p \in Procs :
             /\ st[p].pc = "done" =>
                   /\ st[p].completion \in { "complete_sso_ui_auth",
                                             "complete_sso_login" }
                   /\ st[p].registered_user_id # None
                   /\ st[p].error = ""
             /\ st[p].pc # "done" => st[p].completion = "")
    /\ [][\A p \in Procs :
             /\ st'[p].completion # st[p].completion =>
                   /\ st[p].pc = "complete" /\ st'[p].pc = "done"
                   /\ st'[p].registered_user_id = st[p].registered_user_id
                   /\ st'[p].completion = "complete_sso_ui_auth" <=>
                         /\ st[p].current_session # None
                         /\ st[p].current_session[1].ui_auth_session_id # None
             /\ st[p].pc = "done" => st'[p] = st[p]
             /\ st[p].pc = "failed" => st'[p] = st[p]]_vars

\* Two responses each recovered a session and were completed, one by
\* complete_sso_ui_auth and one by complete_sso_login.
C14_Witness ==
    \E p, q \in Procs :
        /\ st[p].completion = "complete_sso_ui_auth"
        /\ st[q].completion = "complete_sso_login"
        /\ \A r \in ReqIds : popped[r] = 1

\* C15 as stated (the part the table shows): handle_redirect_request for a
\* request id that is in the table leaves the entry stored under that id,
\* its creation_time and its ui_auth_session_id, as it was.
C15_DuplicateCreateKeepsEntry ==
    [][\A r \in ReqIds :
          ( outstanding[r] # None /\ outstanding'[r] # None )
              => outstanding'[r] = outstanding[r]]_vars

\* C16: dot_replace_for_mxid is idempotent: applied to its own result it
\* returns that result.
C16_DotReplaceIdempotent ==
    Len(usernames) = 3 => usernames[3] = usernames[2]

\* The request is finished: completed, or failed.
Finished(p) == st[p].pc \in { "done", "failed" }

\* C17: a request holds the mapping lock exactly while it is inside the
\* block (one that has returned from it, failed or finished does not hold
\* it) and waits in the queue exactly until it is let in; under fair
\* scheduling every request that has arrived, queued or inside the block,
\* finishes, and so has acquired the lock and released it.
C17_LockReleased ==
    /\ [](\A p \in Procs :
             /\ p \in lock_holders <=> InsideLock(p)
             /\ QueuePositions(p) # {} <=> st[p].pc = "lock_wait"
             /\ Finished(p) => p \notin lock_holders)
    /\ [][\A p \in Procs :
             ( st[p].pc = "lock_wait" /\ st'[p].pc # "lock_wait" )
                 => st'[p].pc = "get_user_by_external_id"]_vars
    /\ \A p \in Procs : (st[p].pc # "idle") ~> Finished(p)

\* A request that used up its 1000 attempts inside the lock has released
\* it, and the request that waited behind it has been let in and has
\* finished in its turn.
C17_Witness ==
    \E p, q \in Procs :
        /\ st[p].pc = "failed"
        /\ st[p].error = "500 Unable to generate a Matrix ID from the SAML response"
        /\ st[p].n_lookups = MaxAttempts
        /\ p < q
        /\ Finished(q)
        /\ st[q].n_lookups = MaxAttempts
        /\ lock_holders = {} /\ lock_queue = << >>

\* The request fails in this step.
Fails(p) == st[p].pc # "failed" /\ st'[p].pc = "failed"

\* C18: the session a response has popped is not put back when the request
\* fails later: the failing step leaves the table as it is, an entry enters
\* the table only by a redirect under a request id not used before, the id
\* of a popped session stays absent, and a later response that names it
\* recovers no session.
C18_PoppedSessionNotRestored ==
    /\ [](\A r \in ReqIds :
             /\ popped[r] >= 1 => ( outstanding[r] = None /\ popped[r] = 1 )
             /\ r \in replayed => popped[r] = 1)
    /\ [][/\ \A p \in Procs :
                /\ ( Fails(p) /\ ~ Handles(p) ) => outstanding' = outstanding
                /\ ( Fails(p) /\ Handles(p) ) =>
                       \A r \in ReqIds : outstanding'[r] \in { None, outstanding[r] }
                /\ ( Handles(p) /\ replayed' # replayed ) =>
                       /\ st'[p].current_session = None
                       /\ popped' = popped
                       /\ outstanding' = outstanding
          /\ \A r \in ReqIds :
                ( outstanding[r] = None /\ outstanding'[r] # None ) =>
                    /\ r = next_reqid /\ next_reqid' = r + 1
                    /\ popped[r] = 0
                    /\ \A p \in Procs : st'[p] = st[p]]_vars

\* The first response popped a session and failed after its 1000 attempts;
\* the second named the same request id and recovered no session.
C18_Witness ==
    \E r \in replayed :
        /\ st[1].pc = "failed"
        /\ st[1].error = "500 Unable to generate a Matrix ID from the SAML response"
        /\ st[1].n_lookups = MaxAttempts
        /\ st[2].pc # "idle" /\ st[2].current_session = None
        /\ popped[r] = 1 /\ outstanding[r] = None
        /\ \A r2 \in ReqIds \ { r } : popped[r2] = 0


\* The accounts the case-insensitive lookup of the request's normalized
\* grandfathered value returns.
GrandfatherMatches(p) ==
    store_get_users_by_id_case_insensitive(grandfathered_user_id(st[p].ava))

\* C19: the backwards-compatibility lookup adopts an account only when it
\* returns exactly one: when it returns two or more accounts that differ
\* in case, the resolution does not go on to record a binding to one of
\* them and holds none of them as its result.
C19_AdoptsOnlySingleMatch ==
    [][\A p \in Procs :
          ( /\ st[p].pc = "grandfather_lookup"
            /\ st'[p] # st[p]
            /\ Cardinality(GrandfatherMatches(p)) >= 2 )
          => /\ st'[p].pc # "grandfather_record"
             /\ st'[p].registered_user_id = None]_vars


\* The register_user call of a request (a resolution makes at most one),
\* the user id it asked for, and whether it created the account.
RegisterCall(p) == st[p].calls[CHOOSE k \in CallsOf(p, "register_user") : TRUE]
RegisterUserId(p) == UserID_to_string(RegisterCall(p).a)
RegisteredOk(p) == Registered(p) /\ RegisterCall(p).ok

\* The base localpart of a request's candidate: the candidate without the
\* suffix of its attempt.
BaseOf(p) ==
    SubSeq(st[p].localpart, 1,
           Len(st[p].localpart)
             - ( IF st[p].i = 0 THEN 0 ELSE Len(str(st[p].i)) ))

\* The two requests' localparts are candidates of one base localpart.
SameBase(p, q) ==
    /\ BaseOf(p) = BaseOf(q)
    /\ st[p].localpart = localpart_for(BaseOf(p), st[p].i)
    /\ st[q].localpart = localpart_for(BaseOf(q), st[q].i)

\* C20 as stated: no two calls of register_user are made with localparts
\* whose user ids match case-insensitively.
C20_NoTwoRegisterCallsMatch ==
    \A p, q \in Procs :
        ( p # q /\ Registered(p) /\ Registered(q) ) =>
            lower(RegisterUserId(p)) # lower(RegisterUserId(q))

\* C20, amended: every call of register_user is made, by the holder of the
\* lock, for a localpart whose user id matches no account
\* case-insensitively, and only such a call adds an account; so no two
\* calls that created an account match case-insensitively (a localpart
\* whose registration failed may be asked for again).  Two resolutions of
\* different unbound remote user ids with the same base candidate create
\* different accounts, the one with the higher attempt having found the
\* other's taken.  A resolution that provisions binds its remote user id
\* to the account its own register_user call created.
C20_ProvisionsDistinctAccounts ==
    /\ [](\A p, q \in Procs :
             ( p # q /\ RegisteredOk(p) /\ RegisteredOk(q) ) =>
                 /\ lower(RegisterUserId(p)) # lower(RegisterUserId(q))
                 /\ ( /\ st[p].remote_user_id # st[q].remote_user_id
                      /\ SameBase(p, q)
                      /\ st[p].i <= st[q].i )
                    => /\ st[p].i < st[q].i
                       /\ st[p].registered_user_id # st[q].registered_user_id
                       /\ \A j \in 0 .. st[q].i - 1 :
                             \E u \in users :
                                 lower(u) = lower(UserID_to_string(
                                     localpart_for(BaseOf(p), j))))
    /\ [](\A p \in Procs :
             /\ Cardinality(CallsOf(p, "register_user")) <= 1
             /\ ( Registered(p)
                  /\ ( st[p].pc = "record_user_external_id" \/ Recorded(p) ) )
                => /\ RegisteredOk(p)
                   /\ st[p].registered_user_id = Some(RegisterUserId(p))
                   /\ RegisterUserId(p) \in users
             /\ ( Registered(p) /\ RecordedOk(p) )
                => external_id_row(st[p].remote_user_id, RegisterUserId(p))
                       \in user_external_ids)
    /\ [][\A p \in Procs :
             ( st[p].pc = "register_user" /\ st'[p] # st[p] ) =>
                 LET user_id == UserID_to_string(st[p].localpart)
                 IN  /\ lock_holders = { p }
                     /\ store_get_users_by_id_case_insensitive(user_id) = {}
                     /\ users' \subseteq users \cup { user_id }
                     /\ st'[p].pc = "record_user_external_id"
                            => users' = users \cup { user_id }]_vars
    /\ [][users' # users =>
             \E p \in Procs :
                 /\ st[p].pc = "register_user"
                 /\ st'[p].pc = "record_user_external_id"
                 /\ \A q \in Procs \ { p } :
                       st'[q] = st[q] /\ ~ InsideLock(q)]_vars

\* Two resolutions of the remote user ids "a" and "A", whose base candidate
\* is "a", have created and bound the accounts @a:h and @a1:h.
C20_Witness ==
    \E p, q \in Procs :
        /\ p # q
        /\ RegisteredOk(p) /\ RegisteredOk(q)
        /\ RecordedOk(p) /\ RecordedOk(q)
        /\ st[p].remote_user_id # st[q].remote_user_id
        /\ SameBase(p, q)
        /\ st[p].registered_user_id = Some(UserID_to_string(<< "a" >>))
        /\ st[q].registered_user_id = Some(UserID_to_string(<< "a", "1" >>))

====
